---- MODULE Spec2Model ----
(***************************************************************************)
(* A model of pdns/arguments.cc: the ArgvMap parameter registry, its       *)
(* argument parser, its configuration-file loader and its configuration    *)
(* dump.                                                                   *)
(*                                                                         *)
(* A std::string is a sequence of one-character strings.  Positions are    *)
(* 0-based as in C++ and npos is -1.                                       *)
(***************************************************************************)
EXTENDS Integers, Sequences, FiniteSets, TLC

VARIABLES
  d_params,         \* map<string,string>: name -> current value
  helpmap,          \* map<string,string>: name -> help text
  d_typeMap,        \* map<string,string>: name -> "Parameter" | "Switch" | "Command"
  defaultmap,       \* map<string,string>: name -> registered default
  d_cleared,        \* set<string>: names directly assigned since the last reset
  d_cmds,           \* vector<string>: positional commands
  d_unknownParams,  \* map<string,string>: tolerated unknown names -> value
  pc,               \* which handler is running: "idle" | "parse" | "file" | "includes"
  lax,              \* the lax argument of the running parse() / file()
  parseOnly,        \* the name filter of the running parseFile(), "" for none
  included,         \* the included argument of the running file()
  line,             \* parseFile's accumulator of continued physical lines
  nacc,             \* number of physical lines joined in line and not yet fed
  extraConfigs,     \* file(): the include files still to be parsed
  err,              \* the ArgException the last handler step raised, "" if none
  out,              \* the text the last configstring() returned
  ret,              \* the number the last typed accessor returned, and the accessor
  assignedNow,      \* history: names directly assigned in the running top-level call
  expected,         \* history: name -> value of the last write (declaration or direct assignment)
  incremented,      \* history: names that received an increment since their last declaration
  listed            \* history: the directory entries the last gatherIncludes() read

vars == <<d_params, helpmap, d_typeMap, defaultmap, d_cleared, d_cmds,
          d_unknownParams, pc, lax, parseOnly, included, line, nacc,
          extraConfigs, err, out, ret, assignedNow, expected, incremented, listed>>

history == <<assignedNow, expected, incremented, listed>>

regvars == <<d_params, helpmap, d_typeMap, defaultmap, d_cleared, d_cmds,
             d_unknownParams>>

(***************************************************************************)
(* Bounds of the model.                                                    *)
(***************************************************************************)
\* longest value a parameter may reach (increments grow values without limit)
MaxValLen == 4
\* longest command list
MaxCmds == 1
\* most physical lines joined by backslash continuation
MaxCont == 2

(***************************************************************************)
(* std::string and boost helpers.                                          *)
(***************************************************************************)
Chars(s) == [i \in 1..Len(s) |-> SubSeq(s, i, i)]

npos == 0 - 1

Min(S) == CHOOSE m \in S : \A n \in S : m <= n

\* std::isspace in the "C" locale (vertical tab has no TLA+ escape and is
\* in no input of the model)
IsSpace(c) == c \in {" ", "\t", "\n", "\r", "\f"}

\* s.substr(pos)
SubstrFrom(s, pos) == SubSeq(s, pos + 1, Len(s))

\* s.substr(pos, n)
Substr(s, pos, n) == SubSeq(s, pos + 1, IF pos + n < Len(s) THEN pos + n ELSE Len(s))

\* s.find(sub): the first 0-based position where sub occurs, or npos
Find(s, sub) ==
  LET hits == {i \in 0..(Len(s) - Len(sub)) : SubSeq(s, i + 1, i + Len(sub)) = sub}
  IN IF hits = {} THEN npos ELSE Min(hits)

\* s.find_first_not_of(set)
FindFirstNotOf(s, set) ==
  LET hits == {i \in 0..(Len(s) - 1) : s[i + 1] \notin set}
  IN IF hits = {} THEN npos ELSE Min(hits)

\* boost::trim_right(s): drop the trailing std::isspace characters
RECURSIVE TrimRight(_)
TrimRight(s) ==
  IF s # << >> /\ IsSpace(s[Len(s)]) THEN TrimRight(SubSeq(s, 1, Len(s) - 1)) ELSE s

\* boost::trim_left(s)
RECURSIVE TrimLeft(_)
TrimLeft(s) == IF s # << >> /\ IsSpace(s[1]) THEN TrimLeft(Tail(s)) ELSE s

\* boost::trim(s)
Trim(s) == TrimLeft(TrimRight(s))

\* stringtok(parts, s, delims): the maximal runs of non-delimiter characters
RECURSIVE StringTokAcc(_, _, _, _)
StringTokAcc(s, delims, cur, acc) ==
  IF s = << >> THEN (IF cur = << >> THEN acc ELSE Append(acc, cur))
  ELSE IF s[1] \in delims
       THEN StringTokAcc(Tail(s), delims, << >>,
                         IF cur = << >> THEN acc ELSE Append(acc, cur))
       ELSE StringTokAcc(Tail(s), delims, Append(cur, s[1]), acc)

stringtok(s, delims) == StringTokAcc(s, delims, << >>, << >>)

Range(f) == {f[i] : i \in DOMAIN f}

\* m[k] = v on a std::map
Put(m, k, v) == [n \in (DOMAIN m) \cup {k} |-> IF n = k THEN v ELSE m[n]]

\* the std::map with no entry
EmptyMap == [n \in {} |-> << >>]

(***************************************************************************)
(* Names and texts of the program.                                         *)
(***************************************************************************)
IUS == Chars("ignore-unknown-settings")
IUSHelp == Chars("Configuration settings to ignore if they are unknown")
INCDIR == Chars("include-dir")
INCDIRHelp == Chars("Directory to include configuration files from")
Separator == Chars(", ")

DashDash == Chars("--")
PlusEq == Chars("+=")
Eq == Chars("=")
Hash == Chars("#")
Slash == Chars("/")
ConfSuffix == Chars(".conf")
No == Chars("no")

\* ArgvMap::parmIsset
parmIsset(params, var) == var \in DOMAIN params

(***************************************************************************)
(* ArgvMap::parseOne on the registry fields it reads and writes.           *)
(***************************************************************************)
\* the four argument forms and the command form, in the priority of the code
ArgForm(arg) ==
  IF Find(arg, DashDash) = 0 /\ Find(arg, PlusEq) # npos THEN "incremental"
  ELSE IF Find(arg, DashDash) = 0 /\ Find(arg, Eq) # npos THEN "assign"
  ELSE IF Find(arg, DashDash) = 0 THEN "switch"
  ELSE IF Len(arg) > 1 /\ arg[1] = "-" THEN "short"
  ELSE "command"

\* var as extracted from the argument, after boost::trim
ArgVar(arg) ==
  LET form == ArgForm(arg)
  IN Trim(CASE form = "incremental" -> Substr(arg, 2, Find(arg, PlusEq) - 2)
            [] form = "assign" -> Substr(arg, 2, Find(arg, Eq) - 2)
            [] form = "switch" -> SubstrFrom(arg, 2)
            [] form = "short" -> SubstrFrom(arg, 1)
            [] OTHER -> << >>)

\* val as extracted from the argument, before the leading whitespace is stripped
ArgRawVal(arg) ==
  LET form == ArgForm(arg)
  IN CASE form = "incremental" -> SubstrFrom(arg, Find(arg, PlusEq) + 2)
       [] form = "assign" -> SubstrFrom(arg, Find(arg, Eq) + 1)
       [] OTHER -> << >>

\* strip leading whitespace: pos != 0 && pos != npos
StripLeading(val) ==
  LET pos == FindFirstNotOf(val, {" ", "\t"})
  IN IF pos # 0 /\ pos # npos THEN SubstrFrom(val, pos) ELSE val

\* an increment that puts the separator before the first value too
IncrementalValueAlwaysSeparated(old, val) == old \o Separator \o val

\* the value an incremental argument leaves in d_params[var]
IncrementalValue(old, val) == IF old = << >> THEN val ELSE old \o Separator \o val

\* a parser that accepts every increment on an empty value
IncrementalNeverRefused(cleared, var) == FALSE

\* whether an incremental argument on an empty value is refused
IncrementalRefused(cleared, var) == var \notin cleared

\* the set of names to mark cleared after a direct assignment to var
ClearedAfterAssign(cleared, var) == cleared \cup {var}

\* an ignore list that is not split at commas
IgnoreListNoComma(params) == Range(stringtok(params[IUS], {" ", "\t", "\n", "\r"}))

\* a direct assignment that keeps a value already set
DirectValueKeepFirst(old, val) == IF old = << >> THEN val ELSE old

\* the value a direct assignment leaves in d_params[var]
DirectValue(old, val) == val

\* the unknown-setting branch: the tokens of ignore-unknown-settings
IgnoreList(params) == Range(stringtok(params[IUS], {" ", ",", "\t", "\n", "\r"}))

\* whether the argument passes the parseOnly filter
PassesFilter(var, only) == var # << >> /\ (only = << >> \/ var = only)

ParseOne(R, arg, only, isLax) ==
  LET form == ArgForm(arg)
      var == ArgVar(arg)
      val == StripLeading(ArgRawVal(arg))
      R1 == IF form = "command" THEN [R EXCEPT !.cmds = Append(R.cmds, arg)] ELSE R
  IN IF ~PassesFilter(var, only) THEN R1
     ELSE IF parmIsset(R1.params, var)
     THEN IF form = "incremental"
          THEN IF R1.params[var] = << >> /\ IncrementalRefused(R1.cleared, var)
               THEN [R1 EXCEPT !.err = "IncrementalWithoutParent"]
               ELSE [R1 EXCEPT !.params = Put(R1.params, var, IncrementalValue(R1.params[var], val))]
          ELSE [R1 EXCEPT !.params = Put(R1.params, var, DirectValue(R1.params[var], val)),
                          !.cleared = ClearedAfterAssign(R1.cleared, var)]
     ELSE IF var \in IgnoreList(R1.params)
          THEN [R1 EXCEPT !.unknown = Put(R1.unknown, var, val)]
          ELSE IF ~isLax THEN [R1 EXCEPT !.err = "UnknownSetting"] ELSE R1

\* the registry fields parseOne works on, as a record
Reg == [params |-> d_params, cleared |-> d_cleared, cmds |-> d_cmds,
        unknown |-> d_unknownParams, err |-> ""]

\* the values of the model stay within the bounds
WithinBounds(R) ==
  /\ \A n \in DOMAIN R.params : Len(R.params[n]) <= MaxValLen
  /\ \A n \in DOMAIN R.unknown : Len(R.unknown[n]) <= MaxValLen
  /\ Len(R.cmds) <= MaxCmds

\* no accessor has returned a number
NoReturn == [of |-> "", value |-> 0]

(***************************************************************************)
(* The constructor.                                                        *)
(***************************************************************************)
Init ==
  /\ d_params = Put(EmptyMap, IUS, << >>)
  /\ helpmap = Put(EmptyMap, IUS, IUSHelp)
  /\ d_typeMap = Put(EmptyMap, IUS, "Parameter")
  /\ defaultmap = EmptyMap
  /\ d_cleared = {}
  /\ d_cmds = << >>
  /\ d_unknownParams = EmptyMap
  /\ pc = "idle"
  /\ lax = FALSE
  /\ parseOnly = << >>
  /\ included = FALSE
  /\ line = << >>
  /\ nacc = 0
  /\ extraConfigs = << >>
  /\ err = ""
  /\ out = << >>
  /\ ret = NoReturn
  /\ assignedNow = {}
  /\ expected = Put(EmptyMap, IUS, << >>)
  /\ incremented = {}
  /\ listed = {}

\* what a handler that is no parse, file load or dump leaves alone
Idle == UNCHANGED <<pc, lax, parseOnly, included, line, nacc, extraConfigs>> /\ err' = "" /\ out' = << >>
        /\ ret' = NoReturn

(***************************************************************************)
(* Declarations.                                                           *)
(***************************************************************************)
\* history: the application wrote the slot of var (wrote), or left it alone
Declared(var, wrote) ==
  /\ expected' = IF wrote THEN Put(expected, var, d_params'[var]) ELSE expected
  /\ incremented' = IF wrote THEN incremented \ {var} ELSE incremented
  /\ UNCHANGED <<assignedNow, listed>>

\* d_params[var]: the slot keeps its value, a new slot is empty
Slot(params, var) == IF var \in DOMAIN params THEN params ELSE Put(params, var, << >>)

\* helpmap[var] = help at a declaration
DeclareHelp(hm, var, help) == Put(hm, var, help)

\* d_typeMap[var] = kind at a declaration
DeclareKind(tm, var, kind) == Put(tm, var, kind)

\* set(var, help), and set(var, help) = val when the caller writes the slot
Set(var, help, write, val) ==
  /\ pc = "idle"
  /\ helpmap' = DeclareHelp(helpmap, var, help)
  /\ d_typeMap' = DeclareKind(d_typeMap, var, "Parameter")
  /\ d_params' = IF write THEN Put(d_params, var, val) ELSE Slot(d_params, var)
  /\ UNCHANGED <<defaultmap, d_cleared, d_cmds, d_unknownParams>>
  /\ Declared(var, write \/ var \notin DOMAIN d_params)
  /\ Idle

\* setCmd(var, help)
SetCmd(var, help) ==
  /\ pc = "idle"
  /\ helpmap' = DeclareHelp(helpmap, var, help)
  /\ d_typeMap' = DeclareKind(d_typeMap, var, "Command")
  /\ d_params' = Put(d_params, var, No)
  /\ UNCHANGED <<defaultmap, d_cleared, d_cmds, d_unknownParams>>
  /\ Declared(var, TRUE)
  /\ Idle

\* setSwitch(var, help), and setSwitch(var, help) = val
SetSwitch(var, help, write, val) ==
  /\ pc = "idle"
  /\ helpmap' = DeclareHelp(helpmap, var, help)
  /\ d_typeMap' = DeclareKind(d_typeMap, var, "Switch")
  /\ d_params' = IF write THEN Put(d_params, var, val) ELSE Slot(d_params, var)
  /\ UNCHANGED <<defaultmap, d_cleared, d_cmds, d_unknownParams>>
  /\ Declared(var, write \/ var \notin DOMAIN d_params)
  /\ Idle

\* defaultmap.insert: an existing entry is kept
InsertDefault(dm, var, value) == IF var \in DOMAIN dm THEN dm ELSE Put(dm, var, value)

\* setDefault(var, value)
SetDefault(var, value) ==
  /\ pc = "idle"
  /\ defaultmap' = InsertDefault(defaultmap, var, value)
  /\ UNCHANGED <<d_params, helpmap, d_typeMap, d_cleared, d_cmds, d_unknownParams>>
  /\ UNCHANGED history
  /\ Idle

\* setDefaults(): every parameter without a default gets its current value
SetDefaults ==
  /\ pc = "idle"
  /\ defaultmap' = [n \in (DOMAIN d_params) \cup (DOMAIN defaultmap) |->
                      IF n \in DOMAIN defaultmap THEN defaultmap[n] ELSE d_params[n]]
  /\ UNCHANGED <<d_params, helpmap, d_typeMap, d_cleared, d_cmds, d_unknownParams>>
  /\ UNCHANGED history
  /\ Idle

(***************************************************************************)
(* parse(argc, argv, lax): the arguments are processed one per step.       *)
(***************************************************************************)
\* a parse() that keeps the cleared set of the call before it
ParseResetCmdsOnly(R) == [R EXCEPT !.cmds = << >>]

\* the reset at the start of parse()
ParseReset(R) == [R EXCEPT !.cmds = << >>, !.cleared = {}]

\* history: what the argument is to the name it is applied to
Recorded(arg, only) ==
  LET var == ArgVar(arg)
      applied == PassesFilter(var, only) /\ parmIsset(d_params, var)
      direct == applied /\ ArgForm(arg) \in {"assign", "switch", "short"}
      incr == applied /\ ArgForm(arg) = "incremental"
  IN /\ assignedNow' = IF direct THEN assignedNow \cup {var} ELSE assignedNow
     /\ expected' = IF direct THEN Put(expected, var, StripLeading(ArgRawVal(arg))) ELSE expected
     /\ incremented' = IF incr THEN incremented \cup {var} ELSE incremented
     /\ UNCHANGED listed

\* the registry after parseOne(arg, only, lax), an exception ending the handler
ApplyParseOne(arg, only, next) ==
  LET R == ParseOne(Reg, arg, only, lax) IN
  /\ WithinBounds(R)
  /\ Recorded(arg, only)
  /\ d_params' = R.params
  /\ d_cleared' = R.cleared
  /\ d_cmds' = R.cmds
  /\ d_unknownParams' = R.unknown
  /\ err' = R.err
  /\ pc' = IF R.err = "" THEN next ELSE "idle"
  /\ lax' = IF R.err = "" THEN lax ELSE FALSE
  /\ UNCHANGED <<helpmap, d_typeMap, defaultmap>>

BeginParse(isLax) ==
  /\ pc = "idle"
  /\ pc' = "parse"
  /\ lax' = isLax
  /\ d_cmds' = ParseReset(Reg).cmds
  /\ d_cleared' = ParseReset(Reg).cleared
  /\ err' = ""
  /\ out' = << >>
  /\ ret' = NoReturn
  /\ assignedNow' = {}
  /\ listed' = {}
  /\ UNCHANGED <<d_params, helpmap, d_typeMap, defaultmap, d_unknownParams,
                 parseOnly, included, line, nacc, extraConfigs, expected, incremented>>

ParseArg(arg) ==
  /\ pc = "parse"
  /\ ApplyParseOne(arg, << >>, "parse")
  /\ UNCHANGED <<parseOnly, included, line, nacc, extraConfigs, out, ret>>

EndParse ==
  /\ pc = "parse"
  /\ pc' = "idle"
  /\ lax' = FALSE
  /\ UNCHANGED <<regvars, parseOnly, included, line, nacc, extraConfigs, err, out, ret, history>>

(***************************************************************************)
(* preParse(argc, argv, arg): the whole loop in one step.                  *)
(***************************************************************************)
\* the parseOnly and lax of a call parseOne(arg) that gives neither
ParseOneDefaultFilter == << >>
ParseOneDefaultLax == FALSE

\* whether preParse hands the argument to parseOne: varval.find("--" + arg) == 0
PreParseTakes(varval, arg) == Find(varval, DashDash \o arg) = 0

\* history: the three records as one
HistoryNow == [assigned |-> assignedNow, expected |-> expected, incremented |-> incremented]

\* history: what the argument is to the name it is applied to, on records
RecordedIn(H, params, arg, only) ==
  LET var == ArgVar(arg)
      applied == PassesFilter(var, only) /\ parmIsset(params, var)
      direct == applied /\ ArgForm(arg) \in {"assign", "switch", "short"}
      incr == applied /\ ArgForm(arg) = "incremental"
  IN [assigned |-> IF direct THEN H.assigned \cup {var} ELSE H.assigned,
      expected |-> IF direct THEN Put(H.expected, var, StripLeading(ArgRawVal(arg)))
                   ELSE H.expected,
      incremented |-> IF incr THEN H.incremented \cup {var} ELSE H.incremented]

\* the loop of preParse over argv[1..], up to the first exception
RECURSIVE preParseArgs(_, _, _)
preParseArgs(S, argv, arg) ==
  IF argv = << >> \/ S.reg.err # "" THEN S
  ELSE IF PreParseTakes(Head(argv), arg)
  THEN preParseArgs(
         [reg |-> ParseOne(S.reg, Head(argv), ParseOneDefaultFilter, ParseOneDefaultLax),
          hist |-> RecordedIn(S.hist, S.reg.params, Head(argv), ParseOneDefaultFilter)],
         Tail(argv), arg)
  ELSE preParseArgs(S, Tail(argv), arg)

PreParse(argv, arg) ==
  LET S == preParseArgs([reg |-> [Reg EXCEPT !.err = ""],
                         hist |-> [HistoryNow EXCEPT !.assigned = {}]], argv, arg)
  IN /\ pc = "idle"
     /\ WithinBounds(S.reg)
     /\ d_params' = S.reg.params
     /\ d_cleared' = S.reg.cleared
     /\ d_cmds' = S.reg.cmds
     /\ d_unknownParams' = S.reg.unknown
     /\ err' = S.reg.err
     /\ out' = << >>
     /\ ret' = NoReturn
     /\ assignedNow' = S.hist.assigned
     /\ expected' = S.hist.expected
     /\ incremented' = S.hist.incremented
     /\ UNCHANGED <<helpmap, d_typeMap, defaultmap, pc, lax, parseOnly, included, line,
                    nacc, extraConfigs, listed>>

(***************************************************************************)
(* parseFile: one physical line per step.                                  *)
(***************************************************************************)
\* the physical line after boost::trim_right ends in a backslash
ContinuesLine(pline) ==
  LET p == TrimRight(pline) IN p # << >> /\ p[Len(p)] = "\\"

\* line += pline.substr(0, pline.length() - 1)
JoinContinued(acc, pline) ==
  LET p == TrimRight(pline) IN acc \o SubSeq(p, 1, Len(p) - 1)

\* line += pline
JoinLast(acc, pline) == acc \o TrimRight(pline)

\* strip everything after a #: the first # of the line, when it is the first
\* character or follows whitespace
StripComment(l) ==
  LET pos == Find(l, Hash)
  IN IF pos # npos /\ (pos = 0 \/ IsSpace(l[pos])) THEN Substr(l, 0, pos) ELSE l

\* strip leading spaces
StripLeadingSpaces(l) ==
  LET pos == FindFirstNotOf(l, {" ", "\t", "\r", "\n"})
  IN IF pos # npos THEN SubstrFrom(l, pos) ELSE l

\* the logical line handed to parseOne, without its "--"
LogicalLine(l) == StripLeadingSpaces(TrimRight(StripComment(l)))

\* the locals of file() and parseFile() after the handler has returned
FileLocalsGone ==
  /\ line' = << >>
  /\ nacc' = 0
  /\ extraConfigs' = << >>
  /\ included' = FALSE
  /\ parseOnly' = << >>

\* getline + the loop body of parseFile
ReadLine(pline) ==
  /\ pc = "file"
  /\ IF ContinuesLine(pline)
     THEN /\ nacc < MaxCont
          /\ line' = JoinContinued(line, pline)
          /\ nacc' = nacc + 1
          /\ UNCHANGED <<regvars, pc, lax, parseOnly, included, extraConfigs, err, out, ret, history>>
     ELSE LET arg == DashDash \o LogicalLine(JoinLast(line, pline))
          IN /\ ApplyParseOne(arg, parseOnly, "file")
             /\ IF ParseOne(Reg, arg, parseOnly, lax).err = ""
                THEN /\ line' = << >>
                     /\ nacc' = 0
                     /\ UNCHANGED <<parseOnly, included, extraConfigs>>
                ELSE FileLocalsGone
             /\ UNCHANGED <<out, ret>>

(***************************************************************************)
(* gatherIncludes: a directory is a set of entries [name, regular].        *)
(***************************************************************************)
\* the characters of the model in ASCII order, for comparisons
Ascii == Chars("\t\n\r #+,-./0123456789=ABCDEFGHIJKLMNOPQRSTUVWXYZ\\abcdefghijklmnopqrstuvwxyz")

Ord(c) == CHOOSE i \in 1..Len(Ascii) : Ascii[i] = c

\* tolower in the POSIX locale
Upper == Chars("ABCDEFGHIJKLMNOPQRSTUVWXYZ")
Lower == Chars("abcdefghijklmnopqrstuvwxyz")

ToLower(c) ==
  IF \E i \in DOMAIN Upper : Upper[i] = c
  THEN Lower[CHOOSE i \in DOMAIN Upper : Upper[i] = c]
  ELSE c

\* CIStringComparePOSIX: a < b comparing character by character, case folded
RECURSIVE CIStringComparePOSIX(_, _)
CIStringComparePOSIX(a, b) ==
  IF a = << >> THEN b # << >>
  ELSE IF b = << >> THEN FALSE
  ELSE IF Ord(ToLower(a[1])) < Ord(ToLower(b[1])) THEN TRUE
  ELSE IF Ord(ToLower(a[1])) > Ord(ToLower(b[1])) THEN FALSE
  ELSE CIStringComparePOSIX(Tail(a), Tail(b))

\* an ends_with that folds the case of the letters
EndsWithFolded(name, suffix) ==
  /\ Len(name) >= Len(suffix)
  /\ \A i \in DOMAIN suffix :
       ToLower(name[Len(name) - Len(suffix) + i]) = ToLower(suffix[i])

\* boost::ends_with(name, suffix): a case-sensitive comparison
EndsWith(name, suffix) ==
  Len(name) >= Len(suffix) /\ SubSeq(name, Len(name) - Len(suffix) + 1, Len(name)) = suffix

\* the entries gatherIncludes looks at: no dot file, and the suffix matches
Candidates(listing, suffix) ==
  {e \in listing : e.name # << >> /\ e.name[1] # "." /\ EndsWith(e.name, suffix)}

\* the paths gatherIncludes collects
GatheredPaths(directory, listing, suffix) ==
  {directory \o Slash \o e.name : e \in Candidates(listing, suffix)}

\* the paths in any order, as readdir may return them
UnsortedOrders(paths) ==
  {s \in [1..Cardinality(paths) -> paths] : \A i, j \in DOMAIN s : i # j => s[i] # s[j]}

\* the orders std::sort may leave the paths in under the comparator
SortedOrders(paths) ==
  {s \in [1..Cardinality(paths) -> paths] :
     /\ \A i, j \in DOMAIN s : i # j => s[i] # s[j]
     /\ \A i, j \in DOMAIN s : i < j => ~CIStringComparePOSIX(s[j], s[i])}

(***************************************************************************)
(* file(fname, lax) and file(fname, lax, included).                        *)
(***************************************************************************)
\* inject include-dir
InjectIncludeDir ==
  IF parmIsset(d_params, INCDIR)
  THEN UNCHANGED <<d_params, helpmap, d_typeMap, expected, incremented>>
  ELSE /\ helpmap' = DeclareHelp(helpmap, INCDIR, INCDIRHelp)
       /\ d_typeMap' = DeclareKind(d_typeMap, INCDIR, "Parameter")
       /\ d_params' = Slot(d_params, INCDIR)
       /\ expected' = Put(expected, INCDIR, << >>)
       /\ incremented' = incremented \ {INCDIR}

\* file(fname, lax) up to the opening of the file; a file that cannot be
\* opened makes file() return false
BeginFile(isLax, opens) ==
  /\ pc = "idle"
  /\ InjectIncludeDir
  /\ pc' = IF opens THEN "file" ELSE "idle"
  /\ lax' = IF opens THEN isLax ELSE FALSE
  /\ parseOnly' = << >>
  /\ included' = FALSE
  /\ line' = << >>
  /\ nacc' = 0
  /\ extraConfigs' = << >>
  /\ err' = ""
  /\ out' = << >>
  /\ ret' = NoReturn
  /\ assignedNow' = {}
  /\ listed' = {}
  /\ UNCHANGED <<defaultmap, d_cleared, d_cmds, d_unknownParams>>

\* a file() without the guard against re-inclusion
ExpandsIncludesAlways(isIncluded, params) == params[INCDIR] # << >>

\* preParseFile(fname, arg, theDefault) up to the opening of the file: the
\* slot of arg is written, and the loop of parseFile runs with arg as its filter
BeginPreParseFile(arg, theDefault, opens) ==
  /\ pc = "idle"
  /\ d_params' = Put(d_params, arg, theDefault)
  /\ expected' = Put(expected, arg, theDefault)
  /\ incremented' = incremented \ {arg}
  /\ assignedNow' = {}
  /\ listed' = {}
  /\ pc' = IF opens THEN "file" ELSE "idle"
  /\ parseOnly' = IF opens THEN arg ELSE << >>
  /\ lax' = FALSE
  /\ included' = FALSE
  /\ line' = << >>
  /\ nacc' = 0
  /\ extraConfigs' = << >>
  /\ err' = ""
  /\ out' = << >>
  /\ ret' = NoReturn
  /\ UNCHANGED <<helpmap, d_typeMap, defaultmap, d_cleared, d_cmds, d_unknownParams>>

\* whether file() expands the include directory after parseFile
ExpandsIncludes(isIncluded, params) == ~isIncluded /\ params[INCDIR] # << >>

\* getline fails: parseFile returns true; the top-level file() gathers the
\* includes, an included file() returns to the loop of its caller
EndOfFile(accessible, listing) ==
  /\ pc = "file"
  /\ line' = << >>
  /\ nacc' = 0
  /\ parseOnly' = << >>
  /\ included' = FALSE
  /\ UNCHANGED <<regvars, out, ret, assignedNow, expected, incremented>>
  /\ IF parseOnly # << >>
     THEN pc' = "idle" /\ err' = "" /\ lax' = FALSE /\ extraConfigs' = << >>
          /\ UNCHANGED listed
     ELSE IF ~ExpandsIncludes(included, d_params)
     THEN /\ UNCHANGED listed
          /\ IF included
             THEN pc' = "includes" /\ err' = "" /\ UNCHANGED <<lax, extraConfigs>>
             ELSE pc' = "idle" /\ err' = "" /\ lax' = FALSE /\ UNCHANGED extraConfigs
     ELSE IF ~accessible
     THEN pc' = "idle" /\ err' = "DirectoryInaccessible" /\ lax' = FALSE
          /\ UNCHANGED <<extraConfigs, listed>>
     ELSE IF \E e \in Candidates(listing, ConfSuffix) : ~e.regular
     THEN pc' = "idle" /\ err' = "NotARegularFile" /\ lax' = FALSE
          /\ listed' = listing
          /\ UNCHANGED extraConfigs
     ELSE /\ extraConfigs' \in SortedOrders(GatheredPaths(d_params[INCDIR], listing, ConfSuffix))
          /\ listed' = listing
          /\ pc' = "includes"
          /\ err' = ""
          /\ UNCHANGED lax

\* the next round of the loop over extraConfigs: file(filename, lax, true)
OpenInclude(opens) ==
  /\ pc = "includes"
  /\ extraConfigs # << >>
  /\ IF opens
     THEN /\ pc' = "file"
          /\ included' = TRUE
          /\ extraConfigs' = Tail(extraConfigs)
          /\ err' = ""
          /\ UNCHANGED lax
     ELSE /\ pc' = "idle"
          /\ included' = FALSE
          /\ extraConfigs' = << >>
          /\ err' = "IncludeUnparsable"
          /\ lax' = FALSE
  /\ UNCHANGED <<regvars, parseOnly, line, nacc, out, ret, history>>

\* the loop over extraConfigs is over: file() returns true
EndIncludes ==
  /\ pc = "includes"
  /\ extraConfigs = << >>
  /\ pc' = "idle"
  /\ lax' = FALSE
  /\ UNCHANGED <<regvars, parseOnly, included, line, nacc, extraConfigs, err, out, ret, history>>

(***************************************************************************)
(* formatOne and configstring.                                             *)
(***************************************************************************)
NL == Chars("\n")
Tab == Chars("\t")
HeaderRule == Chars("#################################\n")
CommentMark == Chars("# ")
RunningBanner(now) ==
  Chars("# Autogenerated configuration file based on running instance (") \o now \o Chars(")\n\n")
TemplateBanner == Chars("# Autogenerated configuration file template\n\n")
UnknownHelp == Chars("unknown setting")

\* the text of nowTime(), which holds no line break
NowTime == Chars("now")

\* std::less<std::string>: a < b, byte by byte
RECURSIVE StrLess(_, _)
StrLess(a, b) ==
  IF b = << >> THEN FALSE
  ELSE IF a = << >> THEN TRUE
  ELSE IF a[1] # b[1] THEN Ord(a[1]) < Ord(b[1])
  ELSE StrLess(Tail(a), Tail(b))

\* the keys of a std::map in the order its iterator visits them
RECURSIVE KeysInOrder(_)
KeysInOrder(keys) ==
  IF keys = {} THEN << >>
  ELSE LET k == CHOOSE x \in keys : \A y \in keys \ {x} : StrLess(x, y)
       IN <<k>> \o KeysInOrder(keys \ {k})

\* whether formatOne returns nothing for the parameter
Omitted(running, full, theDefault, current) ==
  ~(~running \/ full) /\ theDefault = current

\* a formatOne that writes the help header in every mode
WithHeaderAlways(running, full) == TRUE

\* whether formatOne writes the help header
WithHeader(running, full) == ~running \/ full

\* whether formatOne comments the setting out
CommentedOut(running, theDefault, current) == ~running \/ theDefault = current

formatOne(running, full, var, help, theDefault, current) ==
  IF Omitted(running, full, theDefault, current) THEN << >>
  ELSE (IF WithHeader(running, full)
        THEN HeaderRule \o CommentMark \o var \o Tab \o help \o Chars("\n#\n")
        ELSE << >>)
       \o (IF CommentedOut(running, theDefault, current) THEN CommentMark ELSE << >>)
       \o (IF running
           THEN var \o Eq \o current \o NL \o (IF full THEN NL ELSE << >>)
           ELSE var \o Eq \o theDefault \o NL \o NL)

\* defaultmap["ignore-unknown-settings"]: the lookup inserts an empty default
DefaultsAfterDump(dm) == IF IUS \in DOMAIN dm THEN dm ELSE Put(dm, IUS, << >>)

\* a loop that does not skip the Command parameters
LoopNamesWithCommands(hm, tm) == {n \in DOMAIN hm : n # IUS}

\* the names the loop over helpmap renders
LoopNames(hm, tm) == {n \in DOMAIN hm : tm[n] # "Command" /\ n # IUS}

\* the first name of the loop without a default, if any
MissingDefaults(hm, tm, dm) == {n \in LoopNames(hm, tm) : n \notin DOMAIN dm}

RECURSIVE FormatAll(_, _, _, _, _, _)
FormatAll(running, full, names, hm, dm, params) ==
  IF names = << >> THEN << >>
  ELSE formatOne(running, full, Head(names), hm[Head(names)], dm[Head(names)],
                 params[Head(names)])
       \o FormatAll(running, full, Tail(names), hm, dm, params)

RECURSIVE FormatUnknown(_, _, _, _)
FormatUnknown(running, full, names, unknown) ==
  IF names = << >> THEN << >>
  ELSE formatOne(running, full, Head(names), UnknownHelp, << >>, unknown[Head(names)])
       \o FormatUnknown(running, full, Tail(names), unknown)

\* configstring(running, full) on the maps it reads: the text it returns, the
\* exception it raises and the default map it leaves
configstring(running, full, hm, tm, dm, params, unknown) ==
  LET dm1 == DefaultsAfterDump(dm)
      text == (IF running THEN RunningBanner(NowTime) ELSE TemplateBanner)
              \o formatOne(running, full, IUS, hm[IUS], dm1[IUS], params[IUS])
              \o FormatAll(running, full, KeysInOrder(LoopNames(hm, tm)), hm, dm1, params)
              \o (IF running
                  THEN FormatUnknown(running, full, KeysInOrder(DOMAIN unknown), unknown)
                  ELSE << >>)
  IN IF MissingDefaults(hm, tm, dm1) # {}
     THEN [text |-> << >>, err |-> "MissingDefault", defaults |-> dm1]
     ELSE [text |-> text, err |-> "", defaults |-> dm1]

\* configstring on the current registry
Dump(running, full) ==
  configstring(running, full, helpmap, d_typeMap, defaultmap, d_params, d_unknownParams)

ConfigDump(running, full) ==
  /\ pc = "idle"
  /\ out' = Dump(running, full).text
  /\ ret' = NoReturn
  /\ err' = Dump(running, full).err
  /\ defaultmap' = Dump(running, full).defaults
  /\ UNCHANGED <<d_params, helpmap, d_typeMap, d_cleared, d_cmds, d_unknownParams,
                 pc, lax, parseOnly, included, line, nacc, extraConfigs, history>>

(***************************************************************************)
(* parseFile on a whole text.                                              *)
(***************************************************************************)
\* the lines std::getline reads from a text
SplitLines(text) ==
  LET ends == {i \in DOMAIN text : text[i] = "\n"}
               \cup (IF text # << >> /\ text[Len(text)] # "\n" THEN {Len(text) + 1} ELSE {})
      start(e) == IF \E b \in ends : b < e
                  THEN (CHOOSE b \in ends : b < e /\ \A c \in ends : c < e => c <= b) + 1
                  ELSE 1
      nth(k) == CHOOSE e \in ends : Cardinality({b \in ends : b <= e}) = k
  IN [k \in 1..Cardinality(ends) |-> SubSeq(text, start(nth(k)), nth(k) - 1)]

\* the loop of parseFile over the physical lines, up to the first exception
RECURSIVE parseFileLines(_, _, _, _, _)
parseFileLines(R, plines, acc, only, isLax) ==
  IF plines = << >> \/ R.err # "" THEN R
  ELSE IF ContinuesLine(Head(plines))
  THEN parseFileLines(R, Tail(plines), JoinContinued(acc, Head(plines)), only, isLax)
  ELSE parseFileLines(ParseOne(R, DashDash \o LogicalLine(JoinLast(acc, Head(plines))), only, isLax),
                      Tail(plines), << >>, only, isLax)

(***************************************************************************)
(* The typed accessors.  The numbers of the model are far inside the range *)
(* of int, so the cast to int leaves them as they are; the casts to uid_t  *)
(* and gid_t do so for the numbers that are not negative.                  *)
(***************************************************************************)
DigitsText == Chars("0123456789abcdef")

\* whether strtol takes the character as a digit of the base
IsDigitIn(c, base) == \E i \in 1..base : DigitsText[i] = ToLower(c)

DigitVal(c) == (CHOOSE i \in 1..Len(DigitsText) : DigitsText[i] = ToLower(c)) - 1

\* the number of leading characters of s that are digits of the base
DigitRun(s, base) ==
  LET bad == {i \in DOMAIN s : ~IsDigitIn(s[i], base)}
  IN IF bad = {} THEN Len(s) ELSE Min(bad) - 1

RECURSIVE DigitsValue(_, _, _)
DigitsValue(s, base, acc) ==
  IF s = << >> THEN acc ELSE DigitsValue(Tail(s), base, acc * base + DigitVal(s[1]))

\* strtol(s, &end, base) for base 0, 8, 10 or 16: the value, and end - s
strtol(s, base) ==
  LET start == FindFirstNotOf(s, {" ", "\t", "\n", "\r", "\f"})
      t == IF start = npos THEN << >> ELSE SubstrFrom(s, start)
      signed == t # << >> /\ t[1] \in {"+", "-"}
      u == IF signed THEN Tail(t) ELSE t
      hex == /\ base \in {0, 16}
             /\ Len(u) >= 3 /\ u[1] = "0" /\ ToLower(u[2]) = "x" /\ IsDigitIn(u[3], 16)
      radix == IF hex THEN 16
               ELSE IF base # 0 THEN base
               ELSE IF u # << >> /\ u[1] = "0" THEN 8 ELSE 10
      d == IF hex THEN SubstrFrom(u, 2) ELSE u
      n == DigitRun(d, radix)
      magnitude == DigitsValue(SubSeq(d, 1, n), radix, 0)
  IN IF n = 0 THEN [value |-> 0, consumed |-> 0]
     ELSE [value |-> IF signed /\ t[1] = "-" THEN 0 - magnitude ELSE magnitude,
           consumed |-> Len(s) - Len(d) + n]

\* a test that takes every zero for a failure
ParsedZero(r) == r.value = 0

\* retval == 0 && cptr_ret == cptr_orig
NothingParsed(r) == r.value = 0 /\ r.consumed = 0

\* asNum(arg, def): the exception it raises and the number it returns
asNum(params, arg, def) ==
  IF ~parmIsset(params, arg) THEN [err |-> "NotFound", value |-> 0]
  ELSE IF params[arg] = << >> THEN [err |-> "", value |-> def]
  ELSE IF NothingParsed(strtol(params[arg], 0)) THEN [err |-> "MalformedValue", value |-> 0]
  ELSE [err |-> "", value |-> strtol(params[arg], 0).value]

\* asGid(arg), groups being what getgrnam resolves: name -> gid
asGid(params, arg, groups) ==
  IF ~parmIsset(params, arg) THEN [err |-> "NotFound", value |-> 0]
  ELSE IF ~NothingParsed(strtol(params[arg], 0))
  THEN [err |-> "", value |-> strtol(params[arg], 0).value]
  ELSE IF params[arg] \in DOMAIN groups THEN [err |-> "", value |-> groups[params[arg]]]
  ELSE [err |-> "IdentityResolutionFailed", value |-> 0]

\* asUid(arg), users being what getpwnam resolves: name -> uid
asUid(params, arg, users) ==
  IF ~parmIsset(params, arg) THEN [err |-> "NotFound", value |-> 0]
  ELSE IF ~NothingParsed(strtol(params[arg], 0))
  THEN [err |-> "", value |-> strtol(params[arg], 0).value]
  ELSE IF params[arg] \in DOMAIN users THEN [err |-> "", value |-> users[params[arg]]]
  ELSE [err |-> "IdentityResolutionFailed", value |-> 0]

\* a call of an accessor: the registry is read, never written
Accessed(of, result) ==
  /\ pc = "idle"
  /\ err' = result.err
  /\ ret' = [of |-> of, value |-> result.value]
  /\ out' = << >>
  /\ UNCHANGED <<regvars, pc, lax, parseOnly, included, line, nacc, extraConfigs, history>>

AsNum(arg, def) == Accessed("asNum", asNum(d_params, arg, def))

AsGid(arg, groups) == Accessed("asGid", asGid(d_params, arg, groups))

AsUid(arg, users) == Accessed("asUid", asUid(d_params, arg, users))

(***************************************************************************)
(* Inputs of the model.                                                    *)
(***************************************************************************)
PX == Chars("x")
FOO == Chars("foo")
Help == Chars("h")
ValA == Chars("a")
ValB == Chars("b")

\* command-line arguments
ParseArgs ==
  {Chars("--x="), Chars("--x=a"), Chars("--x+=a"), Chars("--x+=b"), Chars("--x+= b"),
   Chars("--foo=1"), Chars("--ignore-unknown-settings=foo"),
   Chars("--ignore-unknown-settings=foo,"), Chars("--ignore-unknown-settings="),
   Chars("go")}

\* physical lines of configuration files
FileLines == {Chars("x="), Chars("x+=b"), Chars("foo=1"), Chars("")}

\* directory entries of the include directory
Entry(n, r) == [name |-> Chars(n), regular |-> r]

NoListing == {}

(***************************************************************************)
(* Spec: the registry under declarations, command-line parses and loads    *)
(* of files without includes.                                              *)
(***************************************************************************)
Declare == \E w \in BOOLEAN, v \in {<< >>, ValA} : Set(PX, Help, w, v)

StartParse == \E l \in BOOLEAN : BeginParse(l)

NextArg == \E arg \in ParseArgs : ParseArg(arg)

StartFile == \E l \in BOOLEAN, o \in BOOLEAN : BeginFile(l, o)

NextLine == \E pline \in FileLines : ReadLine(pline)

FileEnds == EndOfFile(TRUE, NoListing)

Next ==
  \/ Declare
  \/ StartParse
  \/ NextArg
  \/ EndParse
  \/ StartFile
  \/ NextLine
  \/ FileEnds

Spec == Init /\ [][Next]_vars

(***************************************************************************)
(* SpecDump: the registry under declarations of every kind, defaults,      *)
(* command-line parses and configuration dumps.                            *)
(***************************************************************************)
DumpArgs == {Chars("--x=a #b"), Chars("--foo=1"), Chars("--ignore-unknown-settings=foo")}

DeclareParameter == Set(PX, Help, TRUE, ValA)

DeclareCommand == SetCmd(FOO, Help)

DeclareSwitch == SetSwitch(PX, Help, FALSE, << >>)

RegisterDefault == SetDefault(PX, << >>)

StartDumpParse == BeginParse(FALSE)

NextDumpArg == \E arg \in DumpArgs : ParseArg(arg)

WriteDump == \E running \in BOOLEAN, full \in BOOLEAN : ConfigDump(running, full)

NextDump ==
  \/ DeclareParameter
  \/ DeclareCommand
  \/ DeclareSwitch
  \/ RegisterDefault
  \/ SetDefaults
  \/ StartDumpParse
  \/ NextDumpArg
  \/ EndParse
  \/ WriteDump

SpecDump == Init /\ [][NextDump]_vars

(***************************************************************************)
(* SpecFiles: loads of files with comments, continued lines and an include *)
(* directory, followed by command-line parses.                             *)
(***************************************************************************)
LoaderLines ==
  {Chars("x=a"), Chars("x=b # c"), Chars("x+=b"), Chars("x=# #"), Chars("x=a\\"),
   Chars("include-dir=d"), Chars("include-dir=e")}

LayerArgs == {Chars("--x=b"), Chars("--x=")}

Listings ==
  {{Entry("2-b.conf", TRUE), Entry("10-a.conf", TRUE), Entry("c.txt", TRUE),
    Entry(".h.conf", TRUE), Entry("B.CONF", TRUE)},
   {Entry("b.conf", FALSE)},
   {Entry("A.conf", TRUE), Entry("a.conf", TRUE), Entry("sub", FALSE), Entry(".d.conf", FALSE)}}

DeclareX == Set(PX, Help, TRUE, << >>)

StartLoad == \E l \in BOOLEAN : BeginFile(l, TRUE)

NextLoaderLine == \E pline \in LoaderLines : ReadLine(pline)

LoadEnds == \E a \in BOOLEAN, l \in Listings : EndOfFile(a, l)

NextInclude == \E o \in BOOLEAN : OpenInclude(o)

StartLayerParse == BeginParse(FALSE)

NextLayerArg == \E arg \in LayerArgs : ParseArg(arg)

NextFiles ==
  \/ DeclareX
  \/ StartLoad
  \/ NextLoaderLine
  \/ LoadEnds
  \/ NextInclude
  \/ EndIncludes
  \/ StartLayerParse
  \/ NextLayerArg
  \/ EndParse

SpecFiles == Init /\ [][NextFiles]_vars

(***************************************************************************)
(* SpecUnknown: dumps of a registry whose command lines name foo, which is *)
(* on the list of ignored settings or not, with and without a value.       *)
(***************************************************************************)
UnknownArgs == {Chars("--foo=1"), Chars("--foo"), Chars("--ignore-unknown-settings=foo")}

NextUnknownArg == \E arg \in UnknownArgs : ParseArg(arg)

NextUnknown ==
  \/ DeclareParameter
  \/ DeclareCommand
  \/ SetDefaults
  \/ StartDumpParse
  \/ NextUnknownArg
  \/ EndParse
  \/ WriteDump

SpecUnknown == Init /\ [][NextUnknown]_vars

(***************************************************************************)
(* SpecAccess: typed reads of a parameter declared with texts that are,    *)
(* start with, or are no numbers, and of a name that is not declared.      *)
(***************************************************************************)
NumberTexts ==
  {<< >>, Chars("0"), Chars("abc"), Chars("12"), Chars("0x1f"), Chars("010"), Chars("-5"),
   Chars("7up"), Chars(" 5"), Chars("0x"), Chars("08"), Chars("+3"), Chars("-"),
   Chars("1a")}

\* what the caller of asNum gives as the default
CallerDefaults == {7}

\* what getpwnam and getgrnam resolve: nothing, or the names abc, 7up and 1a
Identities ==
  {EmptyMap, [n \in {Chars("abc"), Chars("7up"), Chars("1a")} |-> Len(n) + 2]}

DeclareNumber == \E v \in NumberTexts : Set(PX, Help, TRUE, v)

ReadNumber == \E n \in {PX, FOO}, def \in CallerDefaults : AsNum(n, def)

ReadGid == \E n \in {PX, FOO}, groups \in Identities : AsGid(n, groups)

ReadUid == \E n \in {PX, FOO}, users \in Identities : AsUid(n, users)

NextAccess ==
  \/ DeclareNumber
  \/ ReadNumber
  \/ ReadGid
  \/ ReadUid

SpecAccess == Init /\ [][NextAccess]_vars

(***************************************************************************)
(* SpecPre: pre-parses of the command line and of files for the flag x,    *)
(* with a parameter xy that has x as a proper prefix of its name.          *)
(***************************************************************************)
XY == Chars("xy")

PreArgvs ==
  {<<Chars("--x=a")>>, <<Chars("--xy=b"), Chars("--x=a")>>, <<Chars("--foo=1"), Chars("--x+=b")>>}

PreLines == {Chars("x=b"), Chars("xy=b")}

IgnoringArgs == {Chars("--ignore-unknown-settings=xy"), Chars("--xy=a")}

DeclareXY == Set(XY, Help, FALSE, << >>)

PreParseCommandLine == \E argv \in PreArgvs : PreParse(argv, PX)

StartPreParseFile ==
  \E n \in {PX, XY}, d \in {<< >>, ValA}, o \in BOOLEAN : BeginPreParseFile(n, d, o)

NextPreLine == \E pline \in PreLines : ReadLine(pline)

NextIgnoringArg == \E arg \in IgnoringArgs : ParseArg(arg)

NextPre ==
  \/ DeclareX
  \/ DeclareXY
  \/ PreParseCommandLine
  \/ StartPreParseFile
  \/ NextPreLine
  \/ FileEnds
  \/ StartLayerParse
  \/ NextIgnoringArg
  \/ EndParse

SpecPre == Init /\ [][NextPre]_vars

\* a file has an end, and the loop over extraConfigs goes on to its next round
FairFiles == WF_vars(LoadEnds) /\ WF_vars(NextInclude) /\ WF_vars(EndIncludes)

SpecFilesFair == SpecFiles /\ FairFiles

(***************************************************************************)
(* Properties of the parser.                                               *)
(***************************************************************************)
\* a parse() or a file load is between two arguments
Parsing == pc \in {"parse", "file"}

\* parseOne on the current registry, as the running handler calls it
Processed(arg) == ParseOne(Reg, arg, parseOnly, lax)

\* the registry with an exception raised and nothing else changed
Failed(kind) == [Reg EXCEPT !.err = kind]

\* values given after += and = in the arguments of the properties
GivenValues == {ValA, ValB, Chars(" b"), Chars(" ")}

\* w without its leading spaces and tabs
RECURSIVE DropBlanks(_)
DropBlanks(w) == IF w # << >> /\ w[1] \in {" ", "\t"} THEN DropBlanks(Tail(w)) ELSE w

\* the value the parser takes from the text w: w without its leading spaces
\* and tabs, and w itself when it holds nothing else
Taken(w) == IF DropBlanks(w) = << >> THEN w ELSE DropBlanks(w)

\* C1 as stated: an increment on an empty value of a declared name that was
\* not directly assigned in the running top-level call fails with
\* IncrementalWithoutParent and changes nothing.
C1_NoAssignmentInThisCall ==
  Parsing =>
    \A n \in DOMAIN d_params, w \in GivenValues :
      (d_params[n] = << >> /\ n \notin assignedNow)
        => Processed(DashDash \o n \o PlusEq \o w) = Failed("IncrementalWithoutParent")

\* C1 amended: an increment on an empty value of a declared name that is not
\* in the cleared set fails with IncrementalWithoutParent and leaves the
\* values, the cleared set, the command list and the unknown record unchanged.
C1_IncrementWithoutParent ==
  Parsing =>
    \A n \in DOMAIN d_params, w \in GivenValues :
      (d_params[n] = << >> /\ n \notin d_cleared)
        => Processed(DashDash \o n \o PlusEq \o w) = Failed("IncrementalWithoutParent")

\* C1 witness: an increment was refused and the name is still empty and uncleared
C1_Witness ==
  /\ err = "IncrementalWithoutParent"
  /\ PX \in DOMAIN d_params /\ d_params[PX] = << >> /\ PX \notin d_cleared

\* the registry after a run of arguments, up to the first exception
RECURSIVE ProcessedAll(_, _)
ProcessedAll(R, args) ==
  IF args = << >> \/ R.err # "" THEN R
  ELSE ProcessedAll(ParseOne(R, Head(args), << >>, FALSE), Tail(args))

\* C2 as stated: --x=, --x+=a, --x+=b leaves "a, b"; an increment by w on a
\* non-empty value v leaves v, ", ", w; on an empty cleared value it leaves w.
C2_IncrementAppendsText ==
  Parsing =>
    /\ \A n \in DOMAIN d_params :
         LET R == ProcessedAll(Reg, <<DashDash \o n \o Eq, DashDash \o n \o PlusEq \o ValA,
                                      DashDash \o n \o PlusEq \o ValB>>)
         IN R.err = "" /\ R.params[n] = Chars("a, b")
    /\ \A n \in DOMAIN d_params, w \in GivenValues :
         LET R == Processed(DashDash \o n \o PlusEq \o w)
         IN /\ d_params[n] # << >> => (R.err = "" /\ R.params[n] = d_params[n] \o Chars(", ") \o w)
            /\ (d_params[n] = << >> /\ n \in d_cleared) => (R.err = "" /\ R.params[n] = w)

\* C2 amended: the same, where the text appended is w without its leading
\* spaces and tabs (w itself when it holds nothing but spaces and tabs).
C2_IncrementAppendsValue ==
  Parsing =>
    /\ \A n \in DOMAIN d_params :
         LET R == ProcessedAll(Reg, <<DashDash \o n \o Eq, DashDash \o n \o PlusEq \o ValA,
                                      DashDash \o n \o PlusEq \o ValB>>)
         IN R.err = "" /\ R.params[n] = Chars("a, b")
    /\ \A n \in DOMAIN d_params, w \in GivenValues :
         LET R == Processed(DashDash \o n \o PlusEq \o w)
         IN /\ d_params[n] # << >>
                 => (R.err = "" /\ R.params[n] = d_params[n] \o Chars(", ") \o Taken(w))
            /\ (d_params[n] = << >> /\ n \in d_cleared)
                 => (R.err = "" /\ R.params[n] = Taken(w))

\* C2 witness: --x=, --x+=a, --x+=b were processed in one parse()
C2_Witness ==
  /\ pc = "parse"
  /\ PX \in assignedNow /\ PX \in incremented
  /\ d_params[PX] = Chars("a, b")

\* C3 as stated: every top-level call, a parse() or a top-level file(),
\* starts with an empty cleared set and an empty command list.
C3_EveryCallResets ==
  [][(pc = "idle" /\ pc' \in {"parse", "file"}) => (d_cleared' = {} /\ d_cmds' = << >>)]_vars

\* C3 amended: parse() starts with an empty cleared set and an empty command
\* list; a top-level file() starts with the cleared set and the command list
\* the calls before it left.
C3_ParseResets ==
  [][/\ (pc = "idle" /\ pc' = "parse") => (d_cleared' = {} /\ d_cmds' = << >>)
     /\ (pc = "idle" /\ pc' = "file") => UNCHANGED <<d_cleared, d_cmds>>]_vars

\* C3 witness: a file load runs with a name cleared and a command collected
\* by the parse() before it
C3_Witness ==
  /\ pc = "file"
  /\ assignedNow = {}
  /\ PX \in d_cleared
  /\ d_cmds # << >>

\* names that may be undeclared, and the ways an argument names them
OtherNames == {FOO, Chars("bar")}

NamingArgs(n) ==
  {DashDash \o n \o Eq \o Chars("1"), DashDash \o n \o PlusEq \o Chars("1"),
   DashDash \o n, Chars("-") \o n}

IgnoreDelimiters == {",", " ", "\t", "\n", "\r"}

\* n is a token of the list text v: it holds no delimiter and stands in v
\* between delimiters or the ends of v
IsToken(n, v) ==
  /\ n # << >>
  /\ \A i \in DOMAIN n : n[i] \notin IgnoreDelimiters
  /\ \E i \in 1..Len(v) :
       /\ i + Len(n) - 1 <= Len(v)
       /\ SubSeq(v, i, i + Len(n) - 1) = n
       /\ (i = 1 \/ v[i - 1] \in IgnoreDelimiters)
       /\ (i + Len(n) - 1 = Len(v) \/ v[i + Len(n)] \in IgnoreDelimiters)

\* C4: an argument naming an undeclared parameter is recorded as unknown,
\* without error and without change to any declared value, when the name is
\* a token of ignore-unknown-settings; otherwise it fails with UnknownSetting
\* in a non-lax parse and changes nothing in a lax one.  So
\* --ignore-unknown-settings=foo --foo=1 succeeds, and --foo=1 fails once
\* foo is off the list.
C4_UnknownSetting ==
  Parsing =>
    /\ \A n \in OtherNames \ DOMAIN d_params : \A arg \in NamingArgs(n) :
         LET R == Processed(arg)
         IN IF IsToken(n, d_params[IUS])
            THEN /\ R.err = ""
                 /\ n \in DOMAIN R.unknown
                 /\ [R EXCEPT !.unknown = d_unknownParams] = Reg
            ELSE IF ~lax THEN R = Failed("UnknownSetting") ELSE R = Reg
    /\ FOO \notin DOMAIN d_params =>
         /\ ProcessedAll(Reg, <<Chars("--ignore-unknown-settings=foo"), Chars("--foo=1")>>).err = ""
         /\ ProcessedAll(Reg, <<Chars("--ignore-unknown-settings=foo"), Chars("--foo=1"),
                                Chars("--ignore-unknown-settings=bar"), Chars("--foo=1")>>).err
              = "UnknownSetting"

\* C4 witness: foo was recorded as unknown while on the list, and the same
\* argument failed after foo was taken off the list
C4_Witness ==
  /\ FOO \in DOMAIN d_unknownParams
  /\ d_params[IUS] = << >>
  /\ err = "UnknownSetting"

(***************************************************************************)
(* Properties of the layers.                                               *)
(***************************************************************************)
\* C5: last writer wins.  A declared name that received no increment holds
\* the value of the last direct assignment processed for it, in the order
\* the handlers process their input (the lines of the top-level file, then
\* the included files in their sorted order, then the arguments of a later
\* parse()), and the value of its declaration when no assignment was
\* processed.
C5_LastWriterWins ==
  /\ \A n \in DOMAIN d_params \ incremented : d_params[n] = expected[n]
  /\ pc = "includes" =>
       \A i, j \in DOMAIN extraConfigs :
         i < j => ~CIStringComparePOSIX(extraConfigs[j], extraConfigs[i])

\* C5 witness: x was assigned a by a file line, and a later parse() assigned b
C5_Witness ==
  /\ pc = "parse"
  /\ PX \in DOMAIN d_params /\ PX \notin incremented
  /\ PX \in assignedNow
  /\ d_params[PX] = ValB
  /\ INCDIR \in DOMAIN d_params /\ d_params[INCDIR] # << >>

(***************************************************************************)
(* Properties of the configuration dump.                                   *)
(***************************************************************************)
\* the parameters a dump is about: the declared ones of a kind other than Command
NonCommand == {n \in DOMAIN helpmap : d_typeMap[n] # "Command"}

DefaultOf(n) == IF n \in DOMAIN defaultmap THEN defaultmap[n] ELSE << >>

DumpLines(running, full) == Range(SplitLines(Dump(running, full).text))

\* the dump holds the line name=value
Active(lines, n, v) == (n \o Eq \o v) \in lines

\* the dump holds the line # name=value
Commented(lines, n, v) == (Chars("# ") \o n \o Eq \o v) \in lines

\* the dump holds the help header of the name
Headed(lines, n) == (Chars("# ") \o n \o Chars("\t") \o helpmap[n]) \in lines

\* C6: a running full dump renders only the parameters whose value differs
\* from the default; a running non-full dump renders every non-Command
\* parameter and comments out the lines equal to the default; a template
\* renders every non-Command parameter as a commented name=default line under
\* its help header.
C6_DumpModes ==
  (pc = "idle" /\ MissingDefaults(helpmap, d_typeMap, defaultmap) = {}) =>
    /\ \A n \in NonCommand :
         (Active(DumpLines(TRUE, TRUE), n, d_params[n])
            \/ Commented(DumpLines(TRUE, TRUE), n, d_params[n]))
           <=> d_params[n] # DefaultOf(n)
    /\ \A n \in NonCommand :
         IF d_params[n] = DefaultOf(n)
         THEN Commented(DumpLines(TRUE, FALSE), n, d_params[n])
         ELSE Active(DumpLines(TRUE, FALSE), n, d_params[n])
    /\ \A full \in BOOLEAN : \A n \in NonCommand :
         Commented(DumpLines(FALSE, full), n, DefaultOf(n)) /\ Headed(DumpLines(FALSE, full), n)

\* a line of the dump is about the name: its setting or its help header
About(l, n) ==
  \/ Len(l) > Len(n) /\ SubSeq(l, 1, Len(n) + 1) = n \o Eq
  \/ Len(l) > Len(n) + 2 /\ SubSeq(l, 1, Len(n) + 3) = Chars("# ") \o n \o Eq
  \/ Len(l) > Len(n) + 2 /\ SubSeq(l, 1, Len(n) + 3) = Chars("# ") \o n \o Chars("\t")

\* C7 as stated: a dump fails with MissingDefault exactly when a declared
\* parameter of a kind other than Command has no registered default, and no
\* line of a dump is about a Command parameter.
C7_MissingDefaultAny ==
  pc = "idle" =>
    \A running \in BOOLEAN, full \in BOOLEAN :
      /\ Dump(running, full).err = "MissingDefault"
           <=> (\E n \in NonCommand : n \notin DOMAIN defaultmap)
      /\ Dump(running, full).err \in {"", "MissingDefault"}
      /\ \A n \in DOMAIN helpmap \ NonCommand :
           \A l \in DumpLines(running, full) : ~About(l, n)

\* C7 amended: a dump fails with MissingDefault exactly when a declared
\* parameter other than ignore-unknown-settings of a kind other than Command
\* has no registered default; ignore-unknown-settings never causes the
\* failure; and no line of a dump is about a Command parameter other than
\* ignore-unknown-settings, unless a running dump lists the name as an
\* unknown setting.
C7_MissingDefault ==
  pc = "idle" =>
    \A running \in BOOLEAN, full \in BOOLEAN :
      /\ Dump(running, full).err = "MissingDefault"
           <=> (\E n \in NonCommand \ {IUS} : n \notin DOMAIN defaultmap)
      /\ Dump(running, full).err \in {"", "MissingDefault"}
      /\ \A n \in (DOMAIN helpmap \ NonCommand) \ {IUS} :
           (running => n \notin DOMAIN d_unknownParams)
             => \A l \in DumpLines(running, full) : ~About(l, n)

\* C7 witness: a dump failed for x without a default while a Command
\* parameter was declared
C7_Witness ==
  /\ err = "MissingDefault"
  /\ PX \in NonCommand /\ PX \notin DOMAIN defaultmap
  /\ FOO \in DOMAIN helpmap /\ d_typeMap[FOO] = "Command"

\* the registry with the same declarations and every value at its default
AtDefaults ==
  [params |-> [n \in DOMAIN d_params |->
                 IF n \in NonCommand THEN DefaultOf(n) ELSE d_params[n]],
   cleared |-> {}, cmds |-> << >>, unknown |-> EmptyMap, err |-> ""]

\* the registry after loading the text into the registry at its defaults
Reloaded(text, isLax) == parseFileLines(AtDefaults, SplitLines(text), << >>, << >>, isLax)

\* C8: round trip.  When every non-Command parameter has a default, loading
\* the running non-full dump into the registry at its defaults gives every
\* non-Command parameter the value it has in the dumped registry.
C8_RoundTrip ==
  (pc = "idle" /\ err = "" /\ \A n \in NonCommand : n \in DOMAIN defaultmap) =>
    \A isLax \in BOOLEAN : \A n \in NonCommand :
      Reloaded(Dump(TRUE, FALSE).text, isLax).params[n] = d_params[n]

(***************************************************************************)
(* Properties of the file loader.                                          *)
(***************************************************************************)
\* the positions of l where a # starts a comment: it is the first character
\* or follows whitespace
CommentingAt(l) == {i \in DOMAIN l : l[i] = "#" /\ (i = 1 \/ IsSpace(l[i - 1]))}

\* l cut at the first # that starts a comment
CutAtComment(l) ==
  IF CommentingAt(l) = {} THEN l ELSE SubSeq(l, 1, Min(CommentingAt(l)) - 1)

\* C9: the loader cuts each logical line at the first # that is the first
\* character or follows whitespace and keeps every other #, on every line,
\* also on a line with an uncommenting # before a commenting one.
C9_CommentStripping ==
  (pc = "file" /\ nacc = 0 /\ PX \in DOMAIN d_params) =>
    /\ parseFileLines(Reg, <<Chars("x=3 # comment")>>, << >>, << >>, lax).params[PX] = Chars("3")
    /\ parseFileLines(Reg, <<Chars("x=3#notacomment")>>, << >>, << >>, lax).params[PX]
         = Chars("3#notacomment")
    /\ \A pline \in LoaderLines :
         ~ContinuesLine(pline) =>
           Processed(DashDash \o LogicalLine(pline)) = Processed(DashDash \o Trim(CutAtComment(pline)))

\* C10: a line ending in a backslash is joined, without the backslash and
\* without a separator, to the lines after it up to the first that does not
\* end in a backslash, the joined line is fed to the parser once, and every
\* physical line of the file is part of one logical line fed to the parser.
C10_Continuation ==
  /\ []((pc = "file" /\ nacc = 0 /\ PX \in DOMAIN d_params) =>
          parseFileLines(Reg, <<Chars("x=1\\"), Chars("2")>>, << >>, << >>, lax).params[PX]
            = Chars("12"))
  /\ [][(pc = "file" /\ pc' # "file" /\ err' \notin {"IncrementalWithoutParent", "UnknownSetting"})
          => nacc = 0]_vars

(***************************************************************************)
(* Properties of the include directory.                                    *)
(***************************************************************************)
\* C11: a file load expands the include directory at most once: the list of
\* included files is set only when the top-level file has reached its end
\* with a non-empty include-dir; from then on the list only loses its first
\* element, at the start of the parse of that file, whatever the included
\* files assign to include-dir; the load returns without error only when the
\* list is empty; and every load ends.
C11_IncludesExpandedOnce ==
  /\ [][/\ (pc = "file" /\ extraConfigs' # extraConfigs /\ pc' # "idle")
             => (~included /\ extraConfigs = << >> /\ d_params[INCDIR] # << >>
                 /\ pc' = "includes")
        /\ (pc = "file" /\ ~included /\ pc' = "file") => extraConfigs' = << >>
        /\ (pc = "file" /\ included) => (pc' = "idle" \/ extraConfigs' = extraConfigs)
        /\ (pc = "includes" /\ pc' = "file")
             => (included' /\ extraConfigs # << >> /\ extraConfigs' = Tail(extraConfigs))
        /\ (pc = "includes" /\ pc' = "idle" /\ err' = "") => extraConfigs = << >>
        /\ (pc = "includes" /\ pc' = "includes") => UNCHANGED vars]_vars
  /\ (pc \in {"file", "includes"}) ~> (pc = "idle")

\* C11 witness: an included file has set include-dir to another directory
\* while a file of the first directory is still to be parsed
C11_Witness ==
  /\ pc = "file" /\ included
  /\ d_params[INCDIR] = Chars("e")
  /\ extraConfigs = <<Chars("d/2-b.conf")>>

\* the list is in ascending order under the comparator
Ascending(l) == \A i, j \in DOMAIN l : i < j => ~CIStringComparePOSIX(l[j], l[i])

\* a comes before b in the list when both are in it
Before(l, a, b) == \A i, j \in DOMAIN l : (l[i] = a /\ l[j] = b) => i < j

\* C12: the list of included files is gathered in ascending order of the
\* paths under the case-insensitive comparison of strings (10-a.conf before
\* 2-b.conf; names equal up to letter case in either order), and the file
\* parsed next is one that no file still to be parsed precedes.
C12_IncludeOrder ==
  [][/\ (pc = "file" /\ pc' = "includes" /\ ~included)
          => /\ Ascending(extraConfigs')
             /\ Before(extraConfigs', d_params[INCDIR] \o Chars("/10-a.conf"),
                       d_params[INCDIR] \o Chars("/2-b.conf"))
     /\ (pc = "includes" /\ pc' = "file")
          => \A k \in DOMAIN extraConfigs' :
               ~CIStringComparePOSIX(extraConfigs'[k], Head(extraConfigs))]_vars

\* C12 witness: 10-a.conf is being parsed and 2-b.conf is the one file left
C12_Witness ==
  /\ pc = "file" /\ included
  /\ d_params[INCDIR] = Chars("d")
  /\ extraConfigs = <<Chars("d/2-b.conf")>>

\* the names of the entries with the given property
Names(entries) == {e.name : e \in entries}

\* the names of the files that are being or still to be parsed
Paths(dir, names) == {dir \o Slash \o n : n \in names}

\* the entries the claim includes: regular, the suffix matched without regard
\* to case
ClaimedIncluded(l) == {e \in l : e.regular /\ EndsWithFolded(e.name, ConfSuffix)}

\* the entries the claim makes fatal
ClaimedFatal(l) == {e \in l : ~e.regular /\ EndsWithFolded(e.name, ConfSuffix)}

\* the entries gatherIncludes takes into account: the name starts with no
\* dot and ends with .conf in these very letters
Considered(l) ==
  {e \in l : e.name[1] # "." /\ Len(e.name) >= 5
             /\ SubSeq(e.name, Len(e.name) - 4, Len(e.name)) = Chars(".conf")}

\* C13 as stated: the included files are the regular files of the directory
\* whose name ends with .conf, the case of the letters set aside, and the
\* load fails when an entry with such a name is not a regular file.
C13_SuffixFolded ==
  [][(pc = "file" /\ ~included /\ d_params[INCDIR] # << >> /\ pc' # "file"
        /\ err' \in {"", "NotARegularFile"})
       => IF ClaimedFatal(listed') # {}
          THEN err' = "NotARegularFile"
          ELSE /\ err' = ""
               /\ Range(extraConfigs') = Paths(d_params[INCDIR], Names(ClaimedIncluded(listed')))]_vars

\* C13 amended: the included files are the regular files of the directory
\* whose name does not start with a dot and ends with .conf in lower case,
\* and the load fails when an entry with such a name is not a regular file.
C13_IncludedFiles ==
  [][(pc = "file" /\ ~included /\ d_params[INCDIR] # << >> /\ pc' # "file"
        /\ err' \in {"", "NotARegularFile"})
       => IF \E e \in Considered(listed') : ~e.regular
          THEN err' = "NotARegularFile" /\ pc' = "idle"
          ELSE /\ err' = ""
               /\ pc' = "includes"
               /\ Range(extraConfigs') = Paths(d_params[INCDIR], Names(Considered(listed')))]_vars

\* C13 witness: of a directory with B.CONF, .h.conf and c.txt, the two files
\* 10-a.conf and 2-b.conf are to be parsed
C13_Witness ==
  /\ pc = "includes"
  /\ Entry("B.CONF", TRUE) \in listed /\ Entry(".h.conf", TRUE) \in listed
  /\ Len(extraConfigs) = 2

(***************************************************************************)
(* Properties of the pre-parses.                                           *)
(***************************************************************************)
\* the registry R differs from the current one in the value of n at most
OnlyChanges(R, n) ==
  /\ DOMAIN R.params \subseteq DOMAIN d_params \cup {n}
  /\ \A m \in DOMAIN d_params \ {n} : m \in DOMAIN R.params /\ R.params[m] = d_params[m]
  /\ R.unknown = d_unknownParams

\* C14: a pre-parse for the flag x, of a command line or of a file, changes
\* no parameter but x and, x declared, fails for no unknown setting, whatever
\* other names the arguments and lines hold: xy, which starts with x, and foo.
C14_PreParseOnlyFlag ==
  /\ (pc = "idle" /\ PX \in DOMAIN d_params) =>
       \A argv \in PreArgvs :
         LET R == preParseArgs([reg |-> Reg, hist |-> HistoryNow], argv, PX).reg
         IN OnlyChanges(R, PX) /\ R.err # "UnknownSetting"
  /\ (pc = "file" /\ parseOnly # << >>) =>
       \A pline \in PreLines :
         LET R == Processed(DashDash \o LogicalLine(pline))
         IN OnlyChanges(R, parseOnly) /\ R.err # "UnknownSetting"


(***************************************************************************)
(* Properties of the typed accessors.                                      *)
(***************************************************************************)
\* the numbers the texts of the model are read as
ClaimedNumbers ==
  {<<"0", 0>>, <<"12", 12>>, <<"0x1f", 31>>, <<"010", 8>>, <<"-5", 0 - 5>>, <<"7up", 7>>,
   <<" 5", 5>>, <<"0x", 0>>, <<"08", 0>>, <<"+3", 3>>, <<"1a", 1>>}

\* the texts of the model no leading character of which is taken as a number
ClaimedMalformed == {Chars("abc"), Chars("-")}

\* C15: asNum(name, def) fails with NotFound for a name that is not in the
\* registry, default or not; it returns def for an empty value, 0 for "0",
\* the parsed integer whenever a leading part of the value is a base-0
\* number, and fails with MalformedValue when none is; a call of it never
\* changes the registry.
C15_AsNum ==
  /\ [](\A n \in {PX, FOO}, def \in CallerDefaults :
          LET r == asNum(d_params, n, def)
          IN /\ n \notin DOMAIN d_params => r.err = "NotFound"
             /\ n \in DOMAIN d_params =>
                  /\ d_params[n] = << >> => r = [err |-> "", value |-> def]
                  /\ \A p \in ClaimedNumbers :
                       d_params[n] = Chars(p[1]) => r = [err |-> "", value |-> p[2]]
                  /\ d_params[n] \in ClaimedMalformed => r.err = "MalformedValue")
  /\ [][ret'.of = "asNum" =>
          /\ UNCHANGED regvars
          /\ \E n \in {PX, FOO}, def \in CallerDefaults :
               LET r == asNum(d_params, n, def)
               IN err' = r.err /\ ret'.value = r.value]_vars

\* asNum has returned 0 for the value "0"
C15_Witness ==
  /\ ret = [of |-> "asNum", value |-> 0] /\ err = ""
  /\ PX \in DOMAIN d_params /\ d_params[PX] = Chars("0")


(***************************************************************************)
(* Properties of the unknown settings in a dump.                           *)
(***************************************************************************)
\* the dump holds the header of the name as an unknown setting
Annotated(lines, n) == (Chars("# ") \o n \o Tab \o UnknownHelp) \in lines

\* how many lines of the dump are one of the given lines
Entries(text, lines) ==
  LET all == SplitLines(text) IN Cardinality({i \in DOMAIN all : all[i] \in lines})

SettingLines(n, v) == {n \o Eq \o v, Chars("# ") \o n \o Eq \o v}

\* C16 as stated: a running dump that succeeds, full or not, holds one entry
\* for every unknown setting recorded so far, under the annotation "unknown
\* setting"; a template holds none of them.
C16_UnknownsInRunningDumps ==
  pc = "idle" =>
    \A full \in BOOLEAN :
      LET running == Dump(TRUE, full)
          template == DumpLines(FALSE, full)
      IN \A n \in DOMAIN d_unknownParams :
           /\ running.err = "" =>
                /\ Entries(running.text, SettingLines(n, d_unknownParams[n])) = 1
                /\ Annotated(Range(SplitLines(running.text)), n)
           /\ ~Annotated(template, n)
           /\ n \notin NonCommand => \A l \in template : ~About(l, n)

\* C16 amended: a running full dump that succeeds holds, for every unknown
\* setting recorded so far, the annotation "unknown setting" and one entry,
\* name=value, commented out when the value is empty; a running non-full dump
\* holds no annotation, the one line name=value for an unknown setting with a
\* value and nothing for one whose value is empty; a template holds none of
\* them.  (A name that is declared as well is rendered as declared besides.)
C16_UnknownsInDump ==
  pc = "idle" =>
    LET whole == Dump(TRUE, TRUE)
        wholeLines == Range(SplitLines(whole.text))
        changed == Dump(TRUE, FALSE)
        changedLines == Range(SplitLines(changed.text))
        templates == DumpLines(FALSE, TRUE) \cup DumpLines(FALSE, FALSE)
    IN \A n \in DOMAIN d_unknownParams :
         LET v == d_unknownParams[n]
         IN /\ whole.err = "" =>
                 /\ Annotated(wholeLines, n)
                 /\ Entries(whole.text, SettingLines(n, v)) = 1
                 /\ Commented(wholeLines, n, v) <=> v = << >>
            /\ changed.err = "" =>
                 /\ ~Annotated(changedLines, n)
                 /\ v # << >> =>
                      /\ Entries(changed.text, SettingLines(n, v)) = 1
                      /\ Active(changedLines, n, v)
                 /\ (v = << >> /\ n \notin NonCommand) =>
                      \A l \in changedLines : ~About(l, n)
            /\ ~Annotated(templates, n)
            /\ n \notin NonCommand => \A l \in templates : ~About(l, n)

\* C16 witness: a running non-full dump was written while foo was recorded
\* as an unknown setting with the value 1, and it holds the line foo=1
C16_Witness ==
  /\ pc = "idle" /\ err = ""
  /\ FOO \in DOMAIN d_unknownParams /\ d_unknownParams[FOO] = Chars("1")
  /\ out # << >> /\ out = Dump(TRUE, FALSE).text
  /\ Chars("foo=1") \in Range(SplitLines(out))


(***************************************************************************)
(* Properties of the registry as a whole.                                  *)
(***************************************************************************)
\* C17: in every reachable state no name is at once recorded as an unknown
\* parameter and present as a declared one.
C17_UnknownOrDeclared == DOMAIN d_unknownParams \cap DOMAIN d_params = {}


\* C18: once a parameter is declared, no step changes its kind, its help
\* text, or the default registered for it.
C18_MetadataImmutable ==
  [][\A n \in DOMAIN helpmap :
       /\ n \in DOMAIN helpmap' /\ helpmap'[n] = helpmap[n]
       /\ n \in DOMAIN d_typeMap' /\ d_typeMap'[n] = d_typeMap[n]
       /\ n \in DOMAIN defaultmap =>
            n \in DOMAIN defaultmap' /\ defaultmap'[n] = defaultmap[n]]_vars


(***************************************************************************)
(* Properties of the direct assignment.                                    *)
(***************************************************************************)
\* values given after the first = in the arguments of the property
AssignedValues == GivenValues \cup {Chars("a=b"), Chars("a+=b")}

\* C19: --name=value, as an argument or as the line name=value of a file,
\* for a declared name the handler does not filter out, stores the text after
\* the first = without its leading spaces and tabs in place of the value and
\* puts the name in the cleared set, whatever the value, and changes nothing
\* else.
C19_DirectAssignment ==
  (Parsing /\ parseOnly = << >>) =>
    \A n \in DOMAIN d_params, w \in AssignedValues :
      Processed(DashDash \o n \o Eq \o w)
        = [Reg EXCEPT !.params = Put(Reg.params, n, DropBlanks(w)),
                      !.cleared = Reg.cleared \cup {n}]


\* the whole text is a base-0 number
IsNumber(s) == s # << >> /\ strtol(s, 0).consumed = Len(s)

\* C20: asUid and asGid return the number when the value is a base-0 number,
\* "0" giving 0 without a lookup; for a value that is not a number they
\* return the id the whole value resolves to; and they fail only for a value
\* that is neither a number nor a name that resolves.  (An id is not
\* negative: the values read as a negative number are left aside.)
C20_Ids ==
  \A n \in DOMAIN d_params, db \in Identities :
    strtol(d_params[n], 0).value >= 0 =>
      \A r \in {asUid(d_params, n, db), asGid(d_params, n, db)} :
        LET v == d_params[n]
        IN /\ IsNumber(v) => r = [err |-> "", value |-> strtol(v, 0).value]
           /\ (~IsNumber(v) /\ v \in DOMAIN db) => r = [err |-> "", value |-> db[v]]
           /\ r.err # "" <=> (~IsNumber(v) /\ v \notin DOMAIN db)

====
